---- MODULE Spec2Model ----
(***************************************************************************)
(* Model of the dbgonly! macro (src/src/lib.rs).                           *)
(*                                                                         *)
(* One behaviour is one invocation of the macro at one call site, in one   *)
(* build (debug_assertions on or off).  The macro arms are selected from   *)
(* the shape of the argument list, and the expansion is then run step by   *)
(* step: `match $val` evaluates the expression, eprintln! writes the       *)
(* diagnostic line (debug builds only), `tmp` is yielded, and the          *)
(* multi-expression arm builds the tuple of the yielded values.            *)
(***************************************************************************)
EXTENDS Integers, Sequences, FiniteSets

VARIABLES
    debug_assertions, \* the cfg the crate was built with
    args,             \* the expressions handed to the macro
    trailing,         \* a trailing comma follows the last expression
    site,             \* file!() / line!() of the invocation
    pc,               \* position inside the expansion
    i,                \* index of the expression being handled
    tmp,              \* the `tmp` binding of the match
    vals,             \* values yielded so far by the nested invocations
    evalLog,          \* indices of the expressions, in order of evaluation
    stderr,           \* the complete lines written to the error stream
    torn,             \* fragment left on the stream by a failed write
    writes,           \* number of eprintln! calls made
    writeFailed,      \* an eprintln! call failed
    status,           \* running / returned / panicked / diverged
    result            \* what the invocation yields

vars == <<debug_assertions, args, trailing, site, pc, i, tmp, vals, evalLog,
          stderr, torn, writes, writeFailed, status, result>>

(***************************************************************************)
(* Bounds                                                                  *)
(***************************************************************************)
MaxArgs == 3

(***************************************************************************)
(* Values, expressions and call sites                                      *)
(***************************************************************************)
U32(n) == [tag |-> "u32", n |-> n]

Tuple1(n) == [tag |-> "tuple1", n |-> n]

NoTmp == [tag |-> "none", n |-> 0]

\* The expressions of the documentation's examples, with what evaluating
\* them does: produce a value, panic, or leave the enclosing function.
Exprs ==
    { [text |-> <<"1">>,            kind |-> "value",  val |-> U32(1)],
      [text |-> <<"a * 2">>,        kind |-> "value",  val |-> U32(4)],
      [text |-> <<"factorial(4)">>, kind |-> "value",  val |-> U32(24)],
      [text |-> <<"(1,)">>,         kind |-> "value",  val |-> Tuple1(1)],
      [text |-> <<"panic!()">>,     kind |-> "panic",  val |-> NoTmp],
      [text |-> <<"return">>,       kind |-> "return", val |-> NoTmp] }

Sites ==
    { [file |-> "src/main.rs", line |-> 2],
      [file |-> "src/main.rs", line |-> 11] }

ArgLists == UNION { [1..n -> Exprs] : n \in 0..MaxArgs }

(***************************************************************************)
(* Formatting                                                              *)
(***************************************************************************)
Digit(d) == <<"0", "1", "2", "3", "4", "5", "6", "7", "8", "9">>[d + 1]

RECURSIVE Decimal(_)
\* `{}` of an unsigned integer
Decimal(n) ==
    IF n < 10 THEN <<Digit(n)>>
    ELSE Decimal(n \div 10) \o <<Digit(n % 10)>>

\* `{:#?}` of a value: an integer on one line, a tuple over several
Pretty(v) ==
    IF v.tag = "tuple1"
    THEN <<"(", "\n", "    ">> \o Decimal(v.n) \o <<",", "\n", ")">>
    ELSE Decimal(v.n)

\* stringify!($val)
Stringify(e) == e.text

LocLineWithValueText(s) ==
    <<"[", s.file, ":">> \o Decimal(s.line) \o <<"] ", " = ", "\n">>

\* eprintln!("[{}:{}]", file!(), line!())
LocLine(s) == <<"[", s.file, ":">> \o Decimal(s.line) \o <<"]", "\n">>

DbgLineValueAsText(s, e, v) ==
    <<"[", s.file, ":">> \o Decimal(s.line) \o <<"] ">> \o Pretty(v)
        \o <<" = ">> \o Pretty(v) \o <<"\n">>

\* eprintln!("[{}:{}] {} = {:#?}", file!(), line!(), stringify!($val), &tmp)
DbgLine(s, e, v) ==
    <<"[", s.file, ":">> \o Decimal(s.line) \o <<"] ">> \o Stringify(e)
        \o <<" = ">> \o Pretty(v) \o <<"\n">>

(***************************************************************************)
(* Arm selection: macro_rules tries the arms in order                      *)
(***************************************************************************)
\* does the matcher of the arm accept n expressions (and a trailing comma)?
Matches(a, n, tr) ==
    CASE a = "zero"   -> n = 0 /\ ~tr
      [] a = "single" -> n = 1
      [] a = "multi"  -> n >= 1
      [] OTHER        -> FALSE

ArmOrderMultiFirst == <<"zero", "multi", "single">>

ArmOrder == <<"zero", "single", "multi">>

SelectArm(n, tr) ==
    LET hits == { k \in 1..Len(ArmOrder) : Matches(ArmOrder[k], n, tr) }
    IN  IF hits = {} THEN "none"
        ELSE ArmOrder[CHOOSE k \in hits : \A j \in hits : k <= j]

Arm == SelectArm(Len(args), trailing)

(***************************************************************************)
(* Steps of the expansion                                                  *)
(***************************************************************************)
Pending == [shape |-> "pending", vals |-> <<>>]

EvalStatusAlwaysPanic(e) ==
    IF e.kind = "value" THEN "running" ELSE "panicked"

\* what evaluating the scrutinee of `match $val` does to the invocation
EvalStatus(e) ==
    CASE e.kind = "value"  -> "running"
      [] e.kind = "panic"  -> "panicked"
      [] e.kind = "return" -> "diverged"

AfterMatchAlwaysPrint(dbg) == "eprintln"

\* the body of the `tmp =>` arm: the debug build prints, the release build
\* goes straight to `tmp`
AfterMatch(dbg) == IF dbg THEN "eprintln" ELSE "tmp"

PrintStatusIgnoreError(ok) == "running"

\* eprintln! panics when the write to stderr fails
PrintStatus(ok) == IF ok THEN "running" ELSE "panicked"

Reverse(s) == [k \in 1..Len(s) |-> s[Len(s) + 1 - k]]

TupleOfReversed(vs) == [shape |-> "tuple", vals |-> Reverse(vs)]

\* ($(dbgonly!($val)),+,)
TupleOf(vs) == [shape |-> "tuple", vals |-> vs]

BareOfWrapped(v) == [shape |-> "tuple", vals |-> <<v>>]

\* `tmp` as the value of the single-expression arm
BareOf(v) == [shape |-> "bare", vals |-> <<v>>]

Values == { e.val : e \in { x \in Exprs : x.kind = "value" } }

TypeOK ==
    /\ debug_assertions \in BOOLEAN
    /\ args \in ArgLists
    /\ trailing \in BOOLEAN
    /\ site \in Sites
    /\ pc \in {"zero", "match", "eprintln", "tmp", "tuple", "done"}
    /\ i \in 0..Len(args)
    /\ tmp \in Values \cup {NoTmp}
    /\ vals \in UNION { [1..n -> Values] : n \in 0..Len(args) }
    /\ evalLog \in UNION { [1..n -> 1..Len(args)] : n \in 0..Len(args) }
    /\ Len(stderr) <= writes
    /\ writes \in 0..(Len(args) + 1)
    /\ writeFailed \in BOOLEAN
    /\ status \in {"running", "returned", "panicked", "diverged"}
    /\ result.shape \in {"pending", "unit", "nothing", "bare", "tuple"}

Init ==
    /\ debug_assertions \in BOOLEAN
    /\ args \in ArgLists
    /\ trailing \in BOOLEAN
    /\ SelectArm(Len(args), trailing) # "none"
    /\ site \in Sites
    /\ pc = IF Arm = "zero" THEN "zero" ELSE "match"
    /\ i = IF Arm = "zero" THEN 0 ELSE 1
    /\ tmp = NoTmp
    /\ vals = <<>>
    /\ evalLog = <<>>
    /\ stderr = <<>>
    /\ torn = <<>>
    /\ writes = 0
    /\ writeFailed = FALSE
    /\ status = "running"
    /\ result = Pending

\* () => { eprintln!("[{}:{}]", file!(), line!()) }            (debug build)
EprintlnLoc ==
    /\ status = "running" /\ pc = "zero" /\ debug_assertions
    /\ writes' = writes + 1
    /\ \E ok \in BOOLEAN :
        /\ status' = IF ok THEN "returned" ELSE PrintStatus(ok)
        /\ writeFailed' = ~ok
        /\ IF ok
           THEN /\ stderr' = Append(stderr, LocLine(site))
                /\ torn' = torn
                /\ result' = [shape |-> "unit", vals |-> <<>>]
                /\ pc' = "done"
           ELSE /\ stderr' = stderr
                /\ \E k \in 0..(Len(LocLine(site)) - 1) :
                       torn' = SubSeq(LocLine(site), 1, k)
                /\ UNCHANGED <<result, pc>>
    /\ UNCHANGED <<debug_assertions, args, trailing, site, i, tmp, vals, evalLog>>

\* () => {}                                                    (release build)
EmptyExpansion ==
    /\ status = "running" /\ pc = "zero" /\ ~debug_assertions
    /\ status' = "returned"
    /\ result' = [shape |-> "nothing", vals |-> <<>>]
    /\ pc' = "done"
    /\ UNCHANGED <<debug_assertions, args, trailing, site, i, tmp, vals, evalLog,
                   stderr, torn, writes, writeFailed>>

\* match $val { tmp => ... }: the scrutinee is evaluated, its value bound
MatchVal ==
    /\ status = "running" /\ pc = "match"
    /\ evalLog' = Append(evalLog, i)
    /\ status' = EvalStatus(args[i])
    /\ IF args[i].kind = "value"
       THEN /\ tmp' = args[i].val
            /\ pc' = AfterMatch(debug_assertions)
       ELSE UNCHANGED <<tmp, pc>>
    /\ UNCHANGED <<debug_assertions, args, trailing, site, i, vals, stderr, torn,
                   writes, writeFailed, result>>

\* eprintln!("[{}:{}] {} = {:#?}", file!(), line!(), stringify!($val), &tmp)
EprintlnVal ==
    /\ status = "running" /\ pc = "eprintln"
    /\ writes' = writes + 1
    /\ \E ok \in BOOLEAN :
        /\ status' = PrintStatus(ok)
        /\ writeFailed' = (writeFailed \/ ~ok)
        /\ IF ok
           THEN /\ stderr' = Append(stderr, DbgLine(site, args[i], tmp))
                /\ torn' = torn
                /\ pc' = "tmp"
           ELSE /\ stderr' = stderr
                /\ \E k \in 0..(Len(DbgLine(site, args[i], tmp)) - 1) :
                       torn' = SubSeq(DbgLine(site, args[i], tmp), 1, k)
                /\ pc' = pc
    /\ UNCHANGED <<debug_assertions, args, trailing, site, i, tmp, vals, evalLog,
                   result>>

\* `tmp`: the value of the match, and so of the (nested) invocation
YieldTmp ==
    /\ status = "running" /\ pc = "tmp"
    /\ IF Arm = "single"
       THEN /\ result' = BareOf(tmp)
            /\ status' = "returned"
            /\ pc' = "done"
            /\ UNCHANGED <<vals, i>>
       ELSE /\ vals' = Append(vals, tmp)
            /\ IF i < Len(args)
               THEN /\ i' = i + 1
                    /\ pc' = "match"
               ELSE /\ i' = i
                    /\ pc' = "tuple"
            /\ UNCHANGED <<result, status>>
    /\ tmp' = NoTmp
    /\ UNCHANGED <<debug_assertions, args, trailing, site, evalLog, stderr, torn,
                   writes, writeFailed>>

\* ($(dbgonly!($val)),+,): the tuple of the nested invocations' values
BuildTuple ==
    /\ status = "running" /\ pc = "tuple"
    /\ result' = TupleOf(vals)
    /\ status' = "returned"
    /\ pc' = "done"
    /\ UNCHANGED <<debug_assertions, args, trailing, site, i, tmp, vals, evalLog,
                   stderr, torn, writes, writeFailed>>

Next ==
    \/ EprintlnLoc
    \/ EmptyExpansion
    \/ MatchVal
    \/ EprintlnVal
    \/ YieldTmp
    \/ BuildTuple

Spec == Init /\ [][Next]_vars

(***************************************************************************)
(* Reference: the bare expression(s) in place of the invocation            *)
(***************************************************************************)
N == Len(args)

Failing(es) == { k \in 1..Len(es) : es[k].kind # "value" }

\* index of the first expression whose evaluation fails, 0 when none does
FirstFail(es) ==
    IF Failing(es) = {} THEN 0
    ELSE CHOOSE k \in Failing(es) : \A j \in Failing(es) : k <= j

ValuesOf(es) == [k \in 1..Len(es) |-> es[k].val]

UpTo(k) == [j \in 1..k |-> j]

\* e1, (e1, e2, ...) or nothing, evaluated left to right
BareOutcome(es) ==
    LET ff == FirstFail(es)
        n  == Len(es)
    IN  [ status  |-> IF ff = 0 THEN "returned"
                      ELSE IF es[ff].kind = "panic" THEN "panicked"
                      ELSE "diverged",
          evalLog |-> UpTo(IF ff = 0 THEN n ELSE ff),
          result  |-> IF ff # 0 THEN Pending
                      ELSE IF n = 0 THEN [shape |-> "nothing", vals |-> <<>>]
                      ELSE IF n = 1 THEN [shape |-> "bare", vals |-> ValuesOf(es)]
                      ELSE [shape |-> "tuple", vals |-> ValuesOf(es)] ]

\* `()` and an empty expansion both carry no value
SameResult(r, s) ==
    IF r.shape \in {"unit", "nothing"}
    THEN s.shape \in {"unit", "nothing"}
    ELSE r = s

\* the lines of e1..ek, each with the value the expression produced
LinesUpTo(k) == [j \in 1..k |-> DbgLine(site, args[j], args[j].val)]

IsPrefix(s, t) == Len(s) <= Len(t) /\ SubSeq(t, 1, Len(s)) = s

(***************************************************************************)
(* Properties                                                              *)
(***************************************************************************)

\* C1: in a debug build the one-expression invocation never evaluates e or
\* writes a line more than once, and when it returns it has
\* evaluated e exactly once, has written exactly one line
\* `[<file>:<line>] <text of e> = <rendering of the value>` naming the call
\* site and the source text of e, and returns the value e produced.
C1_DebugSingle ==
    /\ (debug_assertions /\ N = 1) => (Len(evalLog) <= 1 /\ Len(stderr) <= 1)
    /\ (debug_assertions /\ N = 1 /\ status = "returned") =>
        /\ evalLog = <<1>>
        /\ writes = 1
        /\ torn = <<>>
        /\ stderr = << <<"[", site.file, ":">> \o Decimal(site.line) \o <<"] ">>
                        \o args[1].text \o <<" = ">> \o Pretty(args[1].val)
                        \o <<"\n">> >>
        /\ result = [shape |-> "bare", vals |-> <<args[1].val>>]

C1_Witness ==
    /\ debug_assertions /\ N = 1 /\ status = "returned"
    /\ args[1].text = <<"a * 2">>
    /\ stderr = << <<"[", "src/main.rs", ":", "2", "] ", "a * 2", " = ", "4", "\n">> >>

\* C2: in a release build the one-expression invocation that returns has
\* evaluated e exactly once and returns the value e produced, and no arity
\* of the macro ever writes to the error stream.
C2_ReleaseSilent ==
    ~debug_assertions =>
        /\ stderr = <<>> /\ torn = <<>> /\ writes = 0
        /\ (N = 1 /\ status = "returned") =>
              /\ evalLog = <<1>>
              /\ result = [shape |-> "bare", vals |-> <<args[1].val>>]

C2_Witness ==
    /\ ~debug_assertions /\ N = 1 /\ status = "returned"
    /\ result.vals = <<U32(24)>>

\* C3: with two or more expressions the expressions are evaluated left to
\* right, each once, the result is the tuple of their values in argument
\* order, a debug build writes exactly n lines in argument order, and the
\* line of e_i is on the stream before e_(i+1) is evaluated.
C3_MultiOrdered ==
    N >= 2 =>
        /\ IsPrefix(evalLog, UpTo(N))
        /\ debug_assertions => /\ Len(stderr) >= Len(evalLog) - 1
                               /\ IsPrefix(stderr, LinesUpTo(N))
        /\ status = "returned" =>
              /\ evalLog = UpTo(N)
              /\ result = [shape |-> "tuple", vals |-> ValuesOf(args)]
              /\ debug_assertions => (stderr = LinesUpTo(N) /\ writes = N)

C3_Witness ==
    /\ debug_assertions /\ N = 3 /\ status = "returned"
    /\ result.vals = <<U32(1), Tuple1(1), U32(4)>>
    /\ Len(stderr) = 3

\* C4: the zero-argument invocation writes, in a debug build, exactly one
\* line `[<file>:<line>]` naming the call site, with no value text; in a
\* release build it writes nothing; in both it yields no value.
C4_ZeroArgs ==
    (N = 0 /\ status = "returned") =>
        /\ evalLog = <<>>
        /\ result.vals = <<>>
        /\ result.shape \in {"unit", "nothing"}
        /\ IF debug_assertions
           THEN /\ writes = 1
                /\ stderr = << <<"[", site.file, ":">> \o Decimal(site.line)
                                \o <<"]", "\n">> >>
           ELSE writes = 0 /\ stderr = <<>>

C4_Witness ==
    /\ N = 0 /\ status = "returned" /\ debug_assertions
    /\ stderr = << <<"[", "src/main.rs", ":", "1", "1", "]", "\n">> >>

\* C5: the result is a tuple if and only if two or more expressions are
\* given: one expression, with or without a trailing comma, returns the
\* bare value (one line in a debug build), so a 1-tuple literal comes back
\* as the same 1-tuple, in both builds.
C5_TupleIffMany ==
    (N >= 1 /\ status = "returned") =>
        /\ (result.shape = "tuple") <=> (N >= 2)
        /\ N = 1 =>
              /\ result = [shape |-> "bare", vals |-> <<args[1].val>>]
              /\ Len(stderr) = IF debug_assertions THEN 1 ELSE 0

C5_Witness ==
    /\ N = 1 /\ trailing /\ status = "returned"
    /\ args[1].text = <<"(1,)">>
    /\ result = [shape |-> "bare", vals |-> <<Tuple1(1)>>]

\* C6: when the diagnostic write fails the invocation panics: it yields no
\* value and does not go on; a release build never attempts a write, so
\* the failure cannot happen there.
C6_WriteFailurePanics ==
    /\ writeFailed => /\ status = "panicked"
                      /\ result = Pending
                      /\ debug_assertions
                      /\ Len(stderr) = writes - 1
    /\ ~debug_assertions => writes = 0

C6_Witness ==
    /\ writeFailed /\ status = "panicked" /\ N = 2 /\ Len(evalLog) = 2

\* C7: when the evaluation of an expression fails the invocation fails
\* the way the expression does (a panic stays a panic, leaving the
\* function stays leaving the function), in both builds: no line is
\* written for that expression and no value is returned.
C7_EvalFailurePropagates ==
    (evalLog # <<>> /\ args[evalLog[Len(evalLog)]].kind # "value") =>
        LET k == evalLog[Len(evalLog)]
        IN  /\ status = (IF args[k].kind = "panic" THEN "panicked" ELSE "diverged")
            /\ result = Pending
            /\ ~writeFailed
            /\ torn = <<>>
            /\ writes = IF debug_assertions THEN k - 1 ELSE 0
            /\ stderr = IF debug_assertions THEN LinesUpTo(k - 1) ELSE <<>>

C7_Witness ==
    /\ debug_assertions /\ N = 2 /\ evalLog = <<1, 2>>
    /\ args[2].kind = "return" /\ status = "diverged"
    /\ Len(stderr) = 1

\* C8 as stated: an invocation of any arity, in either build, performs at
\* most one write to the error stream (counted in lines that reached it).
C8_AtMostOneWrite == Len(stderr) <= 1

\* C8 as amended: an invocation performs at most one write per inspected
\* expression (one for the zero-argument form), each after the evaluation
\* of its expression, and none in a release build.
C8_OneWritePerExpression ==
    /\ writes <= (IF N = 0 THEN 1 ELSE N)
    /\ N >= 1 => writes <= Len(evalLog)
    /\ ~debug_assertions => writes = 0

C8_Witness == writes = 3 /\ Len(stderr) = 3 /\ N = 3 /\ status = "returned"

\* C9 as stated: for every argument list, the invocation, in either build,
\* ends as the bare expression(s) would: the same expressions evaluated
\* the same number of times in the same order, the same value returned.
C9_SameAsBare ==
    status # "running" =>
        /\ status = BareOutcome(args).status
        /\ evalLog = BareOutcome(args).evalLog
        /\ SameResult(result, BareOutcome(args).result)

\* C9 as amended: the invocation never evaluates anything the bare
\* expression(s) would not, in the same order and at most once, and
\* whenever no diagnostic write fails it ends as the bare expression(s)
\* would, with the same evaluations and the same value; in a release
\* build that is always so.
C9_SameAsBareUnlessWriteFails ==
    /\ IsPrefix(evalLog, BareOutcome(args).evalLog)
    /\ ~debug_assertions => ~writeFailed
    /\ (status # "running" /\ ~writeFailed) =>
          /\ status = BareOutcome(args).status
          /\ evalLog = BareOutcome(args).evalLog
          /\ SameResult(result, BareOutcome(args).result)

C9_Witness ==
    /\ debug_assertions /\ N = 2 /\ status = "returned" /\ ~writeFailed
    /\ result = [shape |-> "tuple", vals |-> <<U32(4), U32(24)>>]

\* C10: in a debug build with expressions e1..en, when the evaluation of
\* e_k or the write for e_k fails, exactly the lines of e1..e_(k-1) are on
\* the stream as complete lines, nothing after e_k has been evaluated and
\* no tuple is returned.
C10_FailureAtK ==
    (debug_assertions /\ N >= 1 /\ (writeFailed \/ status \in {"panicked", "diverged"})) =>
        LET k == Len(evalLog)
        IN  /\ status \in {"panicked", "diverged"}
            /\ pc # "done"
            /\ k >= 1 /\ evalLog = UpTo(k)
            /\ stderr = LinesUpTo(k - 1)
            /\ writes = IF writeFailed THEN k ELSE k - 1
            /\ writeFailed \/ (args[k].kind # "value" /\ torn = <<>>)
            /\ result = Pending

C10_Witness ==
    /\ debug_assertions /\ N = 3 /\ writeFailed /\ evalLog = <<1, 2>>
    /\ Len(stderr) = 1 /\ torn # <<>>

====
